---- MODULE Spec2Model ----
(***************************************************************************)
(* SagiCheck (insyoku_sakura): the scoring core (app/scoring.py), the      *)
(* place-id extraction and the paginated review fetch                      *)
(* (app/google_client.py) and the POST /analyze handler (app/api.py).      *)
(*                                                                         *)
(* Conventions                                                             *)
(*   - a Python str is a sequence of Unicode code points (integers);       *)
(*   - Optional[T] is a set: None is {} and a present value v is {v};      *)
(*   - a Python float is an exact rational, a record of a numerator n and  *)
(*     a positive denominator d (binary rounding error is not modelled);   *)
(*   - a datetime is an integer number of days, timedelta(days=7) is 7.    *)
(***************************************************************************)
EXTENDS Integers, Sequences, FiniteSets, TLC

VARIABLES
    pc,               \* position of the computation under way
    client,           \* api._client: TRUE when a GooglePlacesClient is set
    url,              \* the google_maps_url handed to parse_place_id
    request,          \* AnalyzeRequest: tabelog_rating, _review_count, _name
    place_id,         \* what parse_place_id returned
    raised,           \* the exception raised, "" for none
    details,          \* _fetch_details' result
    max_reviews,      \* _fetch_reviews' max_reviews
    collected,        \* _fetch_reviews' collected list
    next_page_token,  \* _fetch_reviews' next_page_token
    requests,         \* number of page requests _fetch_reviews has issued
    place,            \* PlaceData: name, rating, reviews
    response,         \* AnalysisResponse returned by analyze_place
    status,           \* HTTP status of POST /analyze (0: none yet)
    called,           \* which of fetch_place, analyze_place were invoked
    sakura_score,     \* _calc_risk_label's first argument
    fraud_score,      \* _calc_risk_label's second argument
    risk_label        \* _calc_risk_label's result

vars == <<pc, client, url, request, place_id, raised, details, max_reviews,
          collected, next_page_token, requests, place, response, status,
          called, sakura_score, fraud_score, risk_label>>

(***************************************************************************)
(* Optional values                                                         *)
(***************************************************************************)
None == {}

Some(v) == {v}

IsNone(o) == o = {}

Val(o) == CHOOSE v \in o : TRUE

(***************************************************************************)
(* Strings as sequences of code points                                     *)
(***************************************************************************)
Ascii == " !_#$%&'()*+,-./0123456789:;<=>?@ABCDEFGHIJKLMNOPQRSTUVWXYZ[_]^__abcdefghijklmnopqrstuvwxyz{|}~"

\* The code point of a one-character string (printable ASCII; the table
\* holds "_" in the places of the double quote, the backslash and the
\* backquote, which a TLA+ string literal cannot hold).
Ord(c) ==
    IF c = "_" THEN 95
    ELSE 31 + (CHOOSE i \in 1..Len(Ascii) : SubSeq(Ascii, i, i) = c)

\* A TLA+ string literal as a Python str.
Str(s) == [i \in 1..Len(s) |-> Ord(SubSeq(s, i, i))]

RECURSIVE Rep(_, _)
Rep(x, n) == IF n = 0 THEN <<>> ELSE <<x>> \o Rep(x, n - 1)

\* a[i..] starts with pat
StartsWithAt(a, i, pat) ==
    /\ i + Len(pat) - 1 <= Len(a)
    /\ \A j \in 1..Len(pat) : a[i + j - 1] = pat[j]

\* Python's `pat in a`
Contains(a, pat) == \E i \in 1..(Len(a) + 1) : StartsWithAt(a, i, pat)

\* Python's a.replace(pat, ""): non-overlapping occurrences, left to right.
RECURSIVE RemoveAll(_, _)
RemoveAll(a, pat) ==
    IF Len(a) = 0 \/ Len(pat) = 0 THEN a
    ELSE IF StartsWithAt(a, 1, pat)
         THEN RemoveAll(SubSeq(a, Len(pat) + 1, Len(a)), pat)
         ELSE <<a[1]>> \o RemoveAll(Tail(a), pat)

(***************************************************************************)
(* _normalize_text: NFKC, then str.strip().  NFKC is modelled on the       *)
(* characters the inputs use: the fullwidth forms U+FF01..U+FF5E fold to   *)
(* ASCII, the ideographic and no-break spaces fold to U+0020, every other  *)
(* character of the input alphabet is NFKC-stable (no combining marks      *)
(* occur in the inputs).                                                   *)
(***************************************************************************)
NFKCChar(c) ==
    IF c >= 65281 /\ c <= 65374 THEN c - 65248
    ELSE IF c = 12288 \/ c = 160 THEN 32
    ELSE c

NFKC(text) == [i \in 1..Len(text) |-> NFKCChar(text[i])]

\* str.isspace() on the characters left after NFKC
IsSpace(c) == c \in {9, 10, 11, 12, 13, 28, 29, 30, 31, 32, 133}

RECURSIVE LStrip(_)
LStrip(text) ==
    IF Len(text) > 0 /\ IsSpace(text[1]) THEN LStrip(Tail(text)) ELSE text

RECURSIVE RStrip(_)
RStrip(text) ==
    IF Len(text) > 0 /\ IsSpace(text[Len(text)])
    THEN RStrip(SubSeq(text, 1, Len(text) - 1))
    ELSE text

Strip(text) == RStrip(LStrip(text))

\* str.lower() on the characters of the input alphabet
LowerChar(c) == IF c >= 65 /\ c <= 90 THEN c + 32 ELSE c

Lower(text) == [i \in 1..Len(text) |-> LowerChar(text[i])]

_normalize_text(text) == Strip(NFKC(text))

(***************************************************************************)
(* Floats as exact rationals [n |-> numerator, d |-> denominator], d > 0   *)
(***************************************************************************)
Rat(num, den) == [n |-> num, d |-> den]

Int2R(k) == Rat(k, 1)

RAdd(x, y) == Rat(x.n * y.d + y.n * x.d, x.d * y.d)

RSub(x, y) == Rat(x.n * y.d - y.n * x.d, x.d * y.d)

RMul(x, y) == Rat(x.n * y.n, x.d * y.d)

RLe(x, y) == x.n * y.d <= y.n * x.d

RLt(x, y) == x.n * y.d < y.n * x.d

REq(x, y) == x.n * y.d = y.n * x.d

\* Python's min(x, y) and max(x, y): the first argument wins a tie
RMin(x, y) == IF RLt(y, x) THEN y ELSE x

RMax(x, y) == IF RLt(x, y) THEN y ELSE x

\* int(x) for x >= 0
Floor(x) == x.n \div x.d

\* Python's round(x): to the nearest integer, a tie to the even one
Round(x) ==
    LET q == x.n \div x.d
        r == x.n % x.d
    IN  IF 2 * r < x.d THEN q
        ELSE IF 2 * r > x.d THEN q + 1
        ELSE IF q % 2 = 0 THEN q ELSE q + 1

IMin(a, b) == IF b < a THEN b ELSE a

IMax(a, b) == IF a < b THEN b ELSE a

(***************************************************************************)
(* app/scoring.py                                                          *)
(***************************************************************************)
FRAUD_KEYWORDS ==
    << <<35408, 27450>>,                       \* sagi
       <<12412, 12387, 12383, 12367, 12426>>,  \* bottakuri
       <<39449, 12373, 12428, 12383>>,         \* damasareta
       <<39449, 12375>>,                       \* damashi
       <<19981, 27491, 35531, 27714>>,         \* fusei seikyuu
       <<27861, 22806>>,                       \* hougai
       <<39640, 12377, 12366, 12427>>,         \* takasugiru
       Str("scam"),
       Str("rip-off"),
       Str("rip off"),
       Str("fraud") >>

BUSINESS_SUFFIXES ==
    << <<26666, 24335, 20250, 31038>>,         \* kabushiki gaisha
       <<65288, 26666, 65289>>,                \* (kabu), fullwidth parentheses
       <<40, 26666, 41>>,                      \* (kabu)
       <<26377, 38480, 20250, 31038>>,         \* yuugen gaisha
       <<21512, 21516, 20250, 31038>>,         \* goudou gaisha
       Str("inc"),
       Str("co.,ltd"),
       Str("co., ltd"),
       Str("llc") >>

\* mutant: the upper bound forgotten, max(lo, x)
clamp_no_upper(x, lo, hi) == RMax(lo, x)

clamp(x, lo, hi) == RMax(lo, RMin(hi, x))

_calc_short_5_ratio(reviews, total) ==
    IF total = 0 THEN Int2R(0)
    ELSE LET short_count ==
                 Cardinality({i \in 1..Len(reviews) :
                     /\ reviews[i].rating = 5
                     /\ Len(_normalize_text(reviews[i].text)) <= 15})
         IN  Rat(short_count, total)

\* sorted(): insertion into an ascending list, after the equal elements
RECURSIVE InsertSorted(_, _)
InsertSorted(sorted, x) ==
    IF Len(sorted) = 0 THEN <<x>>
    ELSE IF x < sorted[1] THEN <<x>> \o sorted
    ELSE <<sorted[1]>> \o InsertSorted(Tail(sorted), x)

\* mutant: the times in the order of the reviews, without sorted()
SortedTimes_unsorted(reviews, n) ==
    [i \in 1..n |-> reviews[i].created_at]

RECURSIVE SortedTimes(_, _)
SortedTimes(reviews, n) ==
    IF n = 0 THEN <<>>
    ELSE InsertSorted(SortedTimes(reviews, n - 1), reviews[n].created_at)

\* while window and window[0] < cutoff: window.popleft()
RECURSIVE PopLeftWhile(_, _)
PopLeftWhile(window, cutoff) ==
    IF Len(window) > 0 /\ window[1] < cutoff
    THEN PopLeftWhile(Tail(window), cutoff)
    ELSE window

\* the loop over times, from times[i] on
RECURSIVE BurstSweep(_, _, _, _)
BurstSweep(times, i, window, max_in_window) ==
    IF i > Len(times) THEN max_in_window
    ELSE LET ts == times[i]
             cutoff == ts - 7
             w == PopLeftWhile(Append(window, ts), cutoff)
         IN  BurstSweep(times, i + 1, w, IMax(max_in_window, Len(w)))

_calc_burst_ratio(reviews, total) ==
    IF total < 5 THEN Int2R(0)
    ELSE LET times == SortedTimes(reviews, Len(reviews))
         IN  IF Len(times) = 0 THEN Int2R(0)
             ELSE Rat(BurstSweep(times, 1, <<>>, 0), total)

_calc_rating_diff(google_rating, tabelog_rating) ==
    IF IsNone(google_rating) \/ IsNone(tabelog_rating) THEN None
    ELSE Some(RSub(Val(google_rating), Val(tabelog_rating)))

RECURSIVE StripSuffixes(_, _)
StripSuffixes(text, i) ==
    IF i > Len(BUSINESS_SUFFIXES) THEN text
    ELSE StripSuffixes(RemoveAll(text, BUSINESS_SUFFIXES[i]), i + 1)

_normalize_name(name) ==
    RemoveAll(StripSuffixes(Lower(_normalize_text(name)), 1), <<32>>)

(***************************************************************************)
(* difflib.SequenceMatcher(a=a, b=b).ratio() for sequences shorter than    *)
(* 200 elements (no junk, no popular-element heuristic): 2*M/(|a|+|b|),    *)
(* M the total size of the matching blocks found by taking the longest     *)
(* common block (the earliest in a, then the earliest in b) and recursing  *)
(* to its left and to its right.  Indices are 1-based and inclusive.       *)
(***************************************************************************)
RECURSIVE CommonLen(_, _, _, _, _, _)
CommonLen(a, i, ahi, b, j, bhi) ==
    IF i > ahi \/ j > bhi THEN 0
    ELSE IF a[i] # b[j] THEN 0
    ELSE 1 + CommonLen(a, i + 1, ahi, b, j + 1, bhi)

find_longest_match(a, alo, ahi, b, blo, bhi) ==
    LET starts == [i : alo..ahi, j : blo..bhi]
        size == [p \in starts |-> CommonLen(a, p.i, ahi, b, p.j, bhi)]
        best == CHOOSE p \in DOMAIN size :
                    \A q \in DOMAIN size :
                        \/ size[q] < size[p]
                        \/ /\ size[q] = size[p]
                           /\ \/ p.i < q.i
                              \/ p.i = q.i /\ p.j <= q.j
    IN  [i |-> best.i, j |-> best.j, k |-> size[best]]

RECURSIVE MatchingSize(_, _, _, _, _, _)
MatchingSize(a, alo, ahi, b, blo, bhi) ==
    IF alo > ahi \/ blo > bhi THEN 0
    ELSE LET m == find_longest_match(a, alo, ahi, b, blo, bhi)
         IN  IF m.k = 0 THEN 0
             ELSE m.k
                  + MatchingSize(a, alo, m.i - 1, b, blo, m.j - 1)
                  + MatchingSize(a, m.i + m.k, ahi, b, m.j + m.k, bhi)

SequenceMatcherRatio(a, b) ==
    IF Len(a) + Len(b) = 0 THEN Int2R(1)
    ELSE Rat(2 * MatchingSize(a, 1, Len(a), b, 1, Len(b)), Len(a) + Len(b))

_calc_name_similarity(google_name, tabelog_name) ==
    IF IsNone(tabelog_name) THEN None
    ELSE IF Len(Val(tabelog_name)) = 0 THEN None
    ELSE LET g_norm == _normalize_name(google_name)
             t_norm == _normalize_name(Val(tabelog_name))
         IN  IF Len(g_norm) = 0 \/ Len(t_norm) = 0 THEN None
             ELSE Some(SequenceMatcherRatio(g_norm, t_norm))

\* mutant: the guard on an empty review list forgotten
_calc_low_star_ratio_unguarded(reviews, total) ==
    Rat(Cardinality({i \in 1..Len(reviews) : reviews[i].rating \in {1, 2}}),
        total)

_calc_low_star_ratio(reviews, total) ==
    IF total = 0 THEN Int2R(0)
    ELSE LET low == Cardinality({i \in 1..Len(reviews) :
                                    reviews[i].rating \in {1, 2}})
         IN  Rat(low, total)

\* the keywords of FRAUD_KEYWORDS (their indices, ascending) found in a text
MatchedKeywords(text) ==
    LET normalized == Lower(_normalize_text(text))
    IN  {k \in 1..Len(FRAUD_KEYWORDS) :
            Contains(normalized, Lower(FRAUD_KEYWORDS[k]))}

\* mutant: hit_reviews incremented once per matching keyword
RECURSIVE HitReviews_per_keyword(_)
HitReviews_per_keyword(matched) ==
    IF Len(matched) = 0 THEN 0
    ELSE Cardinality(matched[Len(matched)])
         + HitReviews_per_keyword(SubSeq(matched, 1, Len(matched) - 1))

\* hit_reviews: the reviews in which any keyword was found
HitReviews(matched) ==
    Cardinality({i \in DOMAIN matched : matched[i] # {}})

\* The two loops of _calc_fraud_stats.  matched[i] holds the keywords found
\* in review i; hit_reviews counts the reviews with any; the Counter holds,
\* per keyword found, the number of reviews holding it, its keys in the
\* order of their first increment: by the first review holding the
\* keyword, then by the keyword's place in FRAUD_KEYWORDS.
FraudLoop(reviews) ==
    LET matched == [i \in 1..Len(reviews) |->
                       MatchedKeywords(reviews[i].text)]
        count == [k \in 1..Len(FRAUD_KEYWORDS) |->
                     Cardinality({i \in DOMAIN matched : k \in matched[i]})]
        hits == {k \in DOMAIN count : count[k] > 0}
        first == [k \in hits |->
                     CHOOSE i \in DOMAIN matched :
                         /\ k \in matched[i]
                         /\ \A j \in 1..(i - 1) : k \notin matched[j]]
        before(j, k) == \/ first[j] < first[k]
                        \/ first[j] = first[k] /\ j < k
        key == [n \in 1..Cardinality(hits) |->
                   CHOOSE k \in hits :
                       Cardinality({j \in hits : before(j, k)}) = n - 1]
    IN  [hit_reviews |-> HitReviews(matched),
         keyword_counts |->
             [n \in DOMAIN key |->
                 [keyword |-> FRAUD_KEYWORDS[key[n]],
                  count |-> count[key[n]]]]]

_calc_fraud_stats(reviews, total) ==
    IF total = 0 THEN [ratio |-> Int2R(0), keyword_counts |-> <<>>]
    ELSE LET r == FraudLoop(reviews)
         IN  [ratio |-> Rat(r.hit_reviews, total),
              keyword_counts |-> r.keyword_counts]

\* the float the terms add up to, before rounding
SakuraTotal(short_5_ratio, burst_7day_ratio, rating_diff, tabelog_missing, name_similarity, low_star_ratio, total_reviews) ==
    LET s1 == clamp(RMul(short_5_ratio, Int2R(100)), Int2R(0), Int2R(40))
        s2 == RAdd(s1, clamp(RMul(burst_7day_ratio, Int2R(100)),
                             Int2R(0), Int2R(25)))
        s3 == IF ~IsNone(rating_diff) /\ RLt(Int2R(0), Val(rating_diff))
              THEN RAdd(s2, clamp(RMul(Val(rating_diff), Int2R(15)),
                                  Int2R(0), Int2R(20)))
              ELSE s2
        s4 == IF tabelog_missing THEN RAdd(s3, Int2R(5)) ELSE s3
        s5 == IF ~IsNone(name_similarity)
              THEN RAdd(s4, clamp(RMul(RSub(Int2R(1), Val(name_similarity)),
                                       Int2R(20)),
                                  Int2R(0), Int2R(15)))
              ELSE s4
        s6 == IF total_reviews >= 20 /\ RLt(low_star_ratio, Rat(1, 10))
              THEN RAdd(s5, Int2R(10))
              ELSE s5
    IN  s6

\* mutant: the final min(100, ...) forgotten
_calc_sakura_score_unclamped(short_5_ratio, burst_7day_ratio, rating_diff, tabelog_missing, name_similarity, low_star_ratio, total_reviews) ==
    Round(SakuraTotal(short_5_ratio, burst_7day_ratio, rating_diff,
                      tabelog_missing, name_similarity, low_star_ratio,
                      total_reviews))

_calc_sakura_score(short_5_ratio, burst_7day_ratio, rating_diff, tabelog_missing, name_similarity, low_star_ratio, total_reviews) ==
    IMin(100, Round(SakuraTotal(short_5_ratio, burst_7day_ratio, rating_diff,
                                tabelog_missing, name_similarity,
                                low_star_ratio, total_reviews)))

\* mutant: the keyword ratio weighted by 20 instead of 200
_calc_fraud_score_x20(fraud_keyword_ratio, low_star_ratio, total_reviews) ==
    LET f1 == clamp(RMul(fraud_keyword_ratio, Int2R(20)),
                    Int2R(0), Int2R(90))
        f2 == IF total_reviews >= 10 /\ RLe(Rat(3, 10), low_star_ratio)
              THEN RAdd(f1, Int2R(10))
              ELSE f1
    IN  IMin(100, Round(f2))

_calc_fraud_score(fraud_keyword_ratio, low_star_ratio, total_reviews) ==
    LET f1 == clamp(RMul(fraud_keyword_ratio, Int2R(200)),
                    Int2R(0), Int2R(90))
        f2 == IF total_reviews >= 10 /\ RLe(Rat(3, 10), low_star_ratio)
              THEN RAdd(f1, Int2R(10))
              ELSE f1
    IN  IMin(100, Round(f2))

\* mutant: "and" for "or" in the test for high
_calc_risk_label_and(sakura, fraud) ==
    IF sakura >= 70 /\ fraud >= 70 THEN "high"
    ELSE IF sakura >= 40 \/ fraud >= 40 THEN "medium"
    ELSE "low"

_calc_risk_label(sakura, fraud) ==
    IF sakura >= 70 \/ fraud >= 70 THEN "high"
    ELSE IF sakura >= 40 \/ fraud >= 40 THEN "medium"
    ELSE "low"

\* mutant: the rating-gap comment only for a difference above 0.5
_build_comments_above(short_5_ratio, burst_7day_ratio, rating_diff, tabelog_missing, fraud_keyword_ratio) ==
    LET c1 == IF RLe(Rat(4, 10), short_5_ratio)
              THEN << <<"short_5", Floor(RMul(short_5_ratio, Int2R(100)))>> >>
              ELSE <<>>
        c2 == IF RLe(Rat(4, 10), burst_7day_ratio)
              THEN Append(c1, <<"burst_7day">>) ELSE c1
        c3 == IF ~IsNone(rating_diff) /\ RLt(Rat(5, 10), Val(rating_diff))
              THEN Append(c2, <<"rating_diff">>) ELSE c2
        c4 == IF tabelog_missing
              THEN Append(c3, <<"tabelog_missing">>) ELSE c3
        c5 == IF RLt(Int2R(0), fraud_keyword_ratio)
              THEN Append(c4, <<"fraud_keyword">>) ELSE c4
    IN  c5

\* A comment is <<kind>>, the short-review one <<kind, percentage>>.
_build_comments(short_5_ratio, burst_7day_ratio, rating_diff, tabelog_missing, fraud_keyword_ratio) ==
    LET c1 == IF RLe(Rat(4, 10), short_5_ratio)
              THEN << <<"short_5", Floor(RMul(short_5_ratio, Int2R(100)))>> >>
              ELSE <<>>
        c2 == IF RLe(Rat(4, 10), burst_7day_ratio)
              THEN Append(c1, <<"burst_7day">>) ELSE c1
        c3 == IF ~IsNone(rating_diff) /\ RLe(Rat(5, 10), Val(rating_diff))
              THEN Append(c2, <<"rating_diff">>) ELSE c2
        c4 == IF tabelog_missing
              THEN Append(c3, <<"tabelog_missing">>) ELSE c3
        c5 == IF RLt(Int2R(0), fraud_keyword_ratio)
              THEN Append(c4, <<"fraud_keyword">>) ELSE c4
    IN  c5

analyze_place(p, req) ==
    LET reviews == p.reviews
        total_reviews == Len(reviews)
        short_5_ratio == _calc_short_5_ratio(reviews, total_reviews)
        burst_7day_ratio == _calc_burst_ratio(reviews, total_reviews)
        rating_diff == _calc_rating_diff(p.rating, req.tabelog_rating)
        tabelog_missing == /\ IsNone(req.tabelog_rating)
                           /\ IsNone(req.tabelog_review_count)
        name_similarity == _calc_name_similarity(p.name, req.tabelog_name)
        low_star_ratio == _calc_low_star_ratio(reviews, total_reviews)
        fraud == _calc_fraud_stats(reviews, total_reviews)
        sakura == _calc_sakura_score(short_5_ratio, burst_7day_ratio,
                                     rating_diff, tabelog_missing,
                                     name_similarity, low_star_ratio,
                                     total_reviews)
        fscore == _calc_fraud_score(fraud.ratio, low_star_ratio,
                                    total_reviews)
    IN  [sakura_score |-> sakura,
         fraud_score |-> fscore,
         risk_label |-> _calc_risk_label(sakura, fscore),
         signals |->
             [total_reviews |-> total_reviews,
              short_5_ratio |-> short_5_ratio,
              burst_7day_ratio |-> burst_7day_ratio,
              rating_diff_google_minus_tabelog |-> rating_diff,
              tabelog_missing |-> tabelog_missing,
              name_similarity_google_vs_tabelog |-> name_similarity,
              low_star_ratio |-> low_star_ratio,
              fraud_keyword_ratio |-> fraud.ratio],
         fraud_keywords |->
             SelectSeq(fraud.keyword_counts, LAMBDA kc : kc.count > 0),
         comments_ja |-> _build_comments(short_5_ratio, burst_7day_ratio,
                                         rating_diff, tabelog_missing,
                                         fraud.ratio)]

(***************************************************************************)
(* urllib.parse as app/google_client.py uses it.  urlsplit is modelled     *)
(* for hosts written in ASCII; of its checks on the host, the one for an   *)
(* unbalanced square bracket is modelled.  unquote decodes well-formed     *)
(* UTF-8 and replaces a malformed sequence by U+FFFD.                      *)
(***************************************************************************)
Min(S) == CHOOSE x \in S : \A y \in S : x <= y

\* s.find(c, from) for any c of chars, 1-based; 0 when there is none
Find(s, chars, from) ==
    LET hits == {i \in from..Len(s) : s[i] \in chars}
    IN  IF hits = {} THEN 0 ELSE Min(hits)

\* s[i:], 1-based
From(s, i) == SubSeq(s, i, Len(s))

Chars(s) == {s[i] : i \in 1..Len(s)}

IsAlpha(c) == (c >= 65 /\ c <= 90) \/ (c >= 97 /\ c <= 122)

IsSchemeChar(c) == IsAlpha(c) \/ (c >= 48 /\ c <= 57) \/ c \in {43, 45, 46}

\* url.lstrip(_WHATWG_C0_CONTROL_OR_SPACE)
RECURSIVE LStripC0(_)
LStripC0(s) == IF Len(s) > 0 /\ s[1] <= 32 THEN LStripC0(Tail(s)) ELSE s

\* tab, carriage return and line feed are removed from the URL
RemoveUnsafe(s) == SelectSeq(s, LAMBDA c : c \notin {9, 10, 13})

ValueError == [ok |-> FALSE]

\* the schemes whose last path segment may carry ";parameters"
uses_params ==
    { <<>>, Str("ftp"), Str("hdl"), Str("prospero"), Str("http"), Str("imap"),
      Str("https"), Str("shttp"), Str("rtsp"), Str("rtspu"), Str("sip"),
      Str("sips"), Str("mms"), Str("sftp"), Str("tel") }

\* _splitparams applied to the path: the path without its parameters
PathWithoutParams(path) ==
    LET slashes == {i \in 1..Len(path) : path[i] = 47}
        last == IF slashes = {} THEN 0
                ELSE CHOOSE i \in slashes : \A j \in slashes : j <= i
        semi == Find(path, {59}, last + 1)
    IN  IF semi = 0 THEN path ELSE SubSeq(path, 1, semi - 1)

\* urlsplit and urlparse, from the netloc on: rest is what follows it
SplitRest(scheme, netloc, rest) ==
    LET hash == Find(rest, {35}, 1)
        first == Find(rest, {63}, 1)
        qmark == IF hash = 0 \/ first < hash THEN first ELSE 0
        stop == IF hash = 0 THEN Len(rest) ELSE hash - 1
        path == SubSeq(rest, 1, IF qmark = 0 THEN stop ELSE qmark - 1)
    IN  IF (91 \in Chars(netloc)) # (93 \in Chars(netloc))
        THEN ValueError
        ELSE [ok |-> TRUE,
              scheme |-> scheme,
              netloc |-> netloc,
              path |-> IF scheme \in uses_params
                       THEN PathWithoutParams(path)
                       ELSE path,
              query |-> IF qmark = 0 THEN <<>>
                        ELSE SubSeq(rest, qmark + 1, stop),
              fragment |-> IF hash = 0 THEN <<>> ELSE From(rest, hash + 1)]

\* urlsplit, from the test for "//" on: rest is what follows the scheme
SplitNetloc(scheme, rest) ==
    LET delim == Find(rest, {47, 63, 35}, 3)
    IN  IF ~(Len(rest) >= 2 /\ rest[1] = 47 /\ rest[2] = 47)
        THEN SplitRest(scheme, <<>>, rest)
        ELSE IF delim = 0 THEN SplitRest(scheme, From(rest, 3), <<>>)
        ELSE SplitRest(scheme, SubSeq(rest, 3, delim - 1), From(rest, delim))

\* urlsplit, from the search for the scheme on
SplitScheme(rest) ==
    LET colon == Find(rest, {58}, 1)
    IN  IF /\ colon > 1
           /\ IsAlpha(rest[1])
           /\ \A k \in 1..(colon - 1) : IsSchemeChar(rest[k])
        THEN SplitNetloc(Lower(SubSeq(rest, 1, colon - 1)),
                         From(rest, colon + 1))
        ELSE SplitNetloc(<<>>, rest)

\* urlparse(url): scheme, netloc, path, query and fragment, or ValueError
urlparse(raw) == SplitScheme(RemoveUnsafe(LStripC0(raw)))

\* the value of a hexadecimal digit, -1 for any other character
HexVal(c) ==
    IF c >= 48 /\ c <= 57 THEN c - 48
    ELSE IF c >= 65 /\ c <= 70 THEN c - 55
    ELSE IF c >= 97 /\ c <= 102 THEN c - 87
    ELSE -1

\* the positions of s in increasing order that are not in skipped
Positions(s, skipped) ==
    SelectSeq([i \in 1..Len(s) |-> i], LAMBDA i : i \notin skipped)

\* the positions of s where an escape %XX starts.  (The two digits of an
\* escape are never themselves the start of one.)
Escapes(s) ==
    {i \in 1..(Len(s) - 2) :
        s[i] = 37 /\ HexVal(s[i + 1]) >= 0 /\ HexVal(s[i + 2]) >= 0}

\* the byte or character that starts at position i of s
ItemAt(s, i, escapes) ==
    IF i \in escapes THEN 16 * HexVal(s[i + 1]) + HexVal(s[i + 2])
    ELSE IF s[i] >= 128 THEN 0 - s[i]
    ELSE s[i]

ItemsAt(s, escapes, at) ==
    [k \in 1..Len(at) |-> ItemAt(s, at[k], escapes)]

ItemsOf(s, escapes) ==
    ItemsAt(s, escapes,
            Positions(s, {i + 1 : i \in escapes} \cup {i + 2 : i \in escapes}))

\* unquote_to_bytes over the ASCII runs of s: each %XX and each ASCII
\* character becomes a byte; a non-ASCII character c is kept aside as -c.
UnquoteItems(s) == ItemsOf(s, Escapes(s))

\* the number of continuation bytes a UTF-8 lead byte announces
Need(b) ==
    IF b >= 194 /\ b <= 223 THEN 1
    ELSE IF b >= 224 /\ b <= 239 THEN 2
    ELSE IF b >= 240 /\ b <= 244 THEN 3
    ELSE 0

\* how many of the continuation bytes the lead at i announces follow it
Followers(items, i) ==
    Cardinality({m \in 1..Need(items[i]) :
                    \A q \in 1..m : /\ i + q <= Len(items)
                                    /\ items[i + q] >= 128
                                    /\ items[i + q] <= 191})

\* the code point of the well-formed sequence of need + 1 bytes at i
CodePoint(items, i, need) ==
    IF need = 1 THEN (items[i] - 192) * 64 + items[i + 1] - 128
    ELSE IF need = 2
         THEN ((items[i] - 224) * 64 + items[i + 1] - 128) * 64
                  + items[i + 2] - 128
    ELSE (((items[i] - 240) * 64 + items[i + 1] - 128) * 64
              + items[i + 2] - 128) * 64 + items[i + 3] - 128

\* what the item b at position i decodes to: a lead byte with all its
\* continuation bytes gives their code point; a lead byte short of them
\* gives U+FFFD for itself and those that follow; any other byte above
\* 127 gives U+FFFD.
DecodedAt(items, i, b, need) ==
    IF b < 0 THEN 0 - b
    ELSE IF b < 128 THEN b
    ELSE IF need > 0 /\ Followers(items, i) = need
         THEN CodePoint(items, i, need)
    ELSE 65533

DecodeAt(items, at) ==
    [k \in 1..Len(at) |->
        DecodedAt(items, at[k], items[at[k]], Need(items[at[k]]))]

\* bytes.decode("utf-8", "replace") over the items
DecodeUtf8(items) ==
    DecodeAt(items,
             Positions(items,
                       {j \in 1..Len(items) :
                           \E i \in 1..(j - 1) : j - i <= Followers(items, i)}))

unquote(s) == DecodeUtf8(UnquoteItems(s))

RECURSIVE SplitOn(_, _)
SplitOn(s, c) ==
    LET i == Find(s, {c}, 1)
    IN  IF i = 0 THEN <<s>>
        ELSE <<SubSeq(s, 1, i - 1)>> \o SplitOn(From(s, i + 1), c)

PlusToSpace(s) == [i \in 1..Len(s) |-> IF s[i] = 43 THEN 32 ELSE s[i]]

\* name_value.partition("=")
Partition(field) ==
    LET eq == Find(field, {61}, 1)
    IN  IF eq = 0 THEN [name |-> field, value |-> <<>>]
        ELSE [name |-> SubSeq(field, 1, eq - 1),
              value |-> From(field, eq + 1)]

\* the decoded name and value of a field
QueryPair(nv) ==
    [name |-> unquote(PlusToSpace(nv.name)),
     value |-> unquote(PlusToSpace(nv.value))]

QueryPairs(kept) == [i \in 1..Len(kept) |-> QueryPair(Partition(kept[i]))]

\* parse_qsl(qs): the (name, value) pairs in order; blank values are dropped
parse_qsl(qs) ==
    QueryPairs(SelectSeq(SplitOn(qs, 38),
                         LAMBDA f : Len(Partition(f).value) > 0))

\* parse_qs(qs)[key][0], None when the key is absent
QueryFirst(pairs, key) ==
    LET hits == {i \in 1..Len(pairs) : pairs[i].name = key}
    IN  IF hits = {} THEN None ELSE Some(pairs[Min(hits)].value)

(***************************************************************************)
(* app/google_client.py: parse_place_id                                    *)
(***************************************************************************)
\* PLACE_ID_PATTERN.search(s): group 1 of the leftmost match of
\* "!1s([^!]+)!", None when nothing matches
PLACE_ID_PATTERN(s) ==
    LET starts == {i \in 1..(Len(s) - 4) :
                       /\ s[i] = 33 /\ s[i + 1] = 49 /\ s[i + 2] = 115
                       /\ s[i + 3] # 33
                       /\ Find(s, {33}, i + 4) > 0}
    IN  IF starts = {} THEN None
        ELSE LET i == Min(starts)
             IN  Some(SubSeq(s, i + 3, Find(s, {33}, i + 4) - 1))

PLACE_ID_KEYS == <<Str("query_place_id"), Str("place_id"), Str("placeid")>>

\* _extract, its last step: the match is unquoted and returned unless empty
Possible(possible) == IF Len(possible) > 0 THEN Some(possible) ELSE None

\* _extract, from the test of the path on
ExtractFromPath(path, match) ==
    IF Contains(path, Str("/maps/place/")) /\ ~IsNone(match)
    THEN Possible(unquote(Val(match)))
    ELSE None

\* _extract, from the test of what the link gave on
ExtractAfterLink(parsed_url, pid) ==
    IF ~IsNone(pid) /\ Len(Val(pid)) > 0 THEN pid
    ELSE ExtractFromPath(parsed_url.path,
                         PLACE_ID_PATTERN(parsed_url.path
                                              \o parsed_url.fragment))

RECURSIVE _extract(_)

\* _extract(inner), None when urlparse raised ValueError
ExtractInner(inner) == IF inner.ok THEN _extract(inner) ELSE None

\* _extract, from the lookup of the link parameter on
ExtractFromLink(parsed_url, link_param) ==
    IF IsNone(link_param) THEN ExtractAfterLink(parsed_url, None)
    ELSE ExtractAfterLink(parsed_url,
                          ExtractInner(urlparse(Val(link_param))))

\* the keys the query holds, by their place in PLACE_ID_KEYS
KeysFound(query) ==
    {k \in 1..Len(PLACE_ID_KEYS) :
        ~IsNone(QueryFirst(query, PLACE_ID_KEYS[k]))}

\* _extract, from the loop over the keys on
ExtractFromQuery(parsed_url, query) ==
    IF KeysFound(query) # {}
    THEN QueryFirst(query, PLACE_ID_KEYS[Min(KeysFound(query))])
    ELSE ExtractFromLink(parsed_url, QueryFirst(query, Str("link")))

_extract(parsed_url) ==
    ExtractFromQuery(parsed_url, parse_qsl(parsed_url.query))

\* parse_place_id, from the return of _extract on
Normalized(found) ==
    IF ~IsNone(found) /\ Len(Val(found)) > 0
    THEN [raised |-> "", value |-> Some(NFKC(Val(found)))]
    ELSE [raised |-> "", value |-> None]

\* parse_place_id(url): what it returns, or the exception it raises.  The
\* tests call it with None as well as with a str: urlparse(None) yields
\* empty bytes components, and the test of a str in the bytes path raises
\* TypeError.
parse_place_id(u) ==
    IF IsNone(u) THEN [raised |-> "TypeError", value |-> None]
    ELSE Normalized(ExtractInner(urlparse(Val(u))))

(***************************************************************************)
(* app/google_client.py: GooglePlacesClient                                *)
(***************************************************************************)
\* fetch_place's default for max_reviews, which POST /analyze relies on
DEFAULT_MAX_REVIEWS == 100

\* datetime.now(timezone.utc), as a day: the clock reads the same day for
\* every review converted in a run
Now == 30

\* A v1 review is [rating, originalText, text, publishTime], each optional;
\* publishTime is the day it parses to, None when absent or unparseable.
_convert_v1_review(review) ==
    IF IsNone(review.rating) THEN None
    ELSE Some([rating |-> Val(review.rating),
               text |-> IF /\ ~IsNone(review.originalText)
                           /\ Len(Val(review.originalText)) > 0
                        THEN Val(review.originalText)
                        ELSE IF /\ ~IsNone(review.text)
                                /\ Len(Val(review.text)) > 0
                             THEN Val(review.text)
                        ELSE <<>>,
               created_at |-> IF IsNone(review.publishTime) THEN Now
                              ELSE Val(review.publishTime)])

\* A details review is [rating, text, time]; rating and time are optional.
_convert_details_review(review) ==
    IF IsNone(review.rating) THEN None
    ELSE Some([rating |-> Val(review.rating),
               text |-> review.text,
               created_at |-> IF IsNone(review.time) THEN Now
                              ELSE Val(review.time)])

\* the values of the entries of a sequence of optionals that are not None
NotNone(seq) ==
    LET kept == SelectSeq(seq, LAMBDA o : ~IsNone(o))
    IN  [i \in 1..Len(kept) |-> Val(kept[i])]

\* the for loop of _fetch_reviews over one page: the rated reviews are
\* appended in order until len(collected) >= max_reviews
AppendPage(coll, reviews, limit) ==
    LET all == coll \o NotNone([i \in 1..Len(reviews) |->
                                    _convert_v1_review(reviews[i])])
    IN  SubSeq(all, 1, IMin(Len(all), limit))

\* Python's truth value of an optional str
Truthy(token) == ~IsNone(token) /\ Val(token) # ""

\* the tail of fetch_place: the reviews of the details stand in when the
\* review pages gave none
PlaceData(d, reviews) ==
    [name |-> d.name,
     rating |-> d.rating,
     reviews |-> IF Len(reviews) = 0 /\ Len(d.reviews) > 0
                 THEN NotNone([i \in 1..Len(d.reviews) |->
                                  _convert_details_review(d.reviews[i])])
                 ELSE reviews]

(***************************************************************************)
(* Inputs of the scoring core                                              *)
(***************************************************************************)
\* longest run of equal reviews in a generated review list
MaxRun == 11

T_saikou == <<26368, 39640>>

\* 15 characters between an ASCII space, an ideographic space and a space
T_padded == <<32, 12288>> \o Rep(121, 15) \o <<32>>

\* "SCAM" in fullwidth capitals
T_fullwidth_scam == <<65331, 65315, 65313, 65325>>

\* "sagi ni chikai bottakuri deshita": two keywords
T_sagi == <<35408, 27450, 12395, 36817, 12356, 12412, 12387, 12383, 12367,
            12426, 12391, 12375, 12383>>

T_ripoff == Str("rip-off experience")

ReviewKinds ==
    { [rating |-> 5, text |-> T_saikou, created_at |-> 0],
      [rating |-> 5, text |-> T_padded, created_at |-> 7],
      [rating |-> 5, text |-> Rep(120, 16), created_at |-> 8],
      [rating |-> 5, text |-> Rep(120, 15), created_at |-> 6],
      [rating |-> 1, text |-> T_sagi, created_at |-> 0],
      [rating |-> 2, text |-> T_ripoff, created_at |-> 15],
      [rating |-> 3, text |-> <<>>, created_at |-> 7],
      [rating |-> 4, text |-> T_fullwidth_scam, created_at |-> 16] }

\* review lists: a run of one kind followed by a run of another, which is
\* short or about as long as the first can be
ReviewLists ==
    { Rep(a, n) \o Rep(b, m) :
          a \in ReviewKinds, b \in ReviewKinds,
          n \in 0..MaxRun, m \in {0, 1, 2, 3, MaxRun - 1, MaxRun} }

\* "Sushi MAX"
N_sushi == <<23551, 21496, 77, 65, 88>>

\* "kabushiki-gaisha Sushi max": the same name with a legal suffix, spaces
\* and another case
N_sushi_kk == <<26666, 24335, 20250, 31038, 32, 23551, 21496, 32, 109, 97, 120>>

\* "Ramen XYZ"
N_ramen == <<12521, 12540, 12513, 12531, 88, 89, 90>>

Requests ==
    [tabelog_rating : {None, Some(Rat(0, 10)), Some(Rat(32, 10)),
                       Some(Rat(50, 10))},
     tabelog_review_count : {None, Some(0), Some(30)},
     tabelog_name : {None, Some(<<>>), Some(<<32>>), Some(N_sushi_kk),
                     Some(N_ramen)}]

\* the requests tried with every review list
FewRequests ==
    { [tabelog_rating |-> None, tabelog_review_count |-> None,
       tabelog_name |-> None],
      [tabelog_rating |-> Some(Rat(32, 10)), tabelog_review_count |-> Some(30),
       tabelog_name |-> Some(N_ramen)],
      [tabelog_rating |-> None, tabelog_review_count |-> None,
       tabelog_name |-> Some(N_ramen)],
      [tabelog_rating |-> Some(Rat(50, 10)), tabelog_review_count |-> None,
       tabelog_name |-> Some(N_sushi_kk)] }

\* the review lists tried with every request and every place rating
FewReviewLists ==
    { Rep(a, n) : a \in ReviewKinds, n \in {0, 4, 2 * MaxRun} }

NoResponse == None

(***************************************************************************)
(* analyze_place applied to a fetched place (the last step of POST         *)
(* /analyze, and the whole of a direct call of the scoring core)           *)
(***************************************************************************)
AnalyzePlace ==
    /\ pc = "analyze_place"
    /\ response' = Some(analyze_place(Val(place), request))
    /\ called' = called \cup {"analyze_place"}
    /\ status' = 200
    /\ pc' = "done"
    /\ UNCHANGED <<client, url, request, place_id, raised, details,
                   max_reviews, collected, next_page_token, requests, place,
                   sakura_score, fraud_score, risk_label>>

\* The scoring core called on a PlaceData and an AnalyzeRequest.
InitScoring ==
    /\ pc = "analyze_place"
    /\ client = TRUE
    /\ url = None
    /\ place_id = None
    /\ raised = ""
    /\ details = None
    /\ max_reviews = 0
    /\ collected = <<>>
    /\ next_page_token = None
    /\ requests = 0
    /\ response = NoResponse
    /\ status = 0
    /\ called = {}
    /\ sakura_score = 0
    /\ fraud_score = 0
    /\ risk_label = ""
    /\ \/ /\ request \in FewRequests
          /\ \E reviews \in ReviewLists :
                place = Some([name |-> N_sushi,
                              rating |-> Some(Rat(48, 10)),
                              reviews |-> reviews])
       \/ /\ request \in Requests
          /\ \E reviews \in FewReviewLists,
                rating \in {None, Some(Rat(20, 10)), Some(Rat(48, 10))},
                name \in {N_sushi, N_ramen, <<>>} :
                place = Some([name |-> name, rating |-> rating,
                              reviews |-> reviews])

SpecScoring == InitScoring /\ [][AnalyzePlace]_vars

(***************************************************************************)
(* Inputs of _calc_burst_ratio: reviews in every order of their dates.     *)
(* Days 0 and 7, and 8 and 15, are exactly 7 days apart; 0 and 8, and 7    *)
(* and 15, are 8 days apart.                                               *)
(***************************************************************************)
MaxBurstReviews == 6

BurstTimes == {0, 7, 8, 15}

BurstReviews ==
    { [rating |-> 4, text |-> <<>>, created_at |-> t] : t \in BurstTimes }

BurstReviewLists ==
    UNION { [1..n -> BurstReviews] : n \in 0..MaxBurstReviews }

\* The scoring core called on reviews that differ in their dates only.
InitBurst ==
    /\ pc = "analyze_place"
    /\ client = TRUE
    /\ url = None
    /\ place_id = None
    /\ raised = ""
    /\ details = None
    /\ max_reviews = 0
    /\ collected = <<>>
    /\ next_page_token = None
    /\ requests = 0
    /\ response = NoResponse
    /\ status = 0
    /\ called = {}
    /\ sakura_score = 0
    /\ fraud_score = 0
    /\ risk_label = ""
    /\ request = [tabelog_rating |-> Some(Rat(32, 10)),
                  tabelog_review_count |-> Some(30),
                  tabelog_name |-> Some(N_ramen)]
    /\ \E reviews \in BurstReviewLists :
          place = Some([name |-> N_sushi, rating |-> Some(Rat(48, 10)),
                        reviews |-> reviews])

SpecBurst == InitBurst /\ [][AnalyzePlace]_vars

(***************************************************************************)
(* Inputs of _build_comments: reviews posted 8 days apart, so that the     *)
(* short 5-star ratio, the burst ratio and the keyword ratio vary          *)
(* independently and meet their thresholds exactly, and ratings that are   *)
(* binary fractions, whose difference a float holds exactly                *)
(***************************************************************************)
MaxCommentReviews == 5

CommentReviewKinds ==
    { [rating |-> 5, text |-> T_saikou, created_at |-> 0],
      [rating |-> 5, text |-> T_saikou, created_at |-> 32],
      [rating |-> 5, text |-> Rep(120, 16), created_at |-> 8],
      [rating |-> 3, text |-> <<>>, created_at |-> 16],
      [rating |-> 1, text |-> T_sagi, created_at |-> 24] }

CommentReviewLists ==
    UNION { [1..n -> CommentReviewKinds] : n \in 0..MaxCommentReviews }

\* the review lists tried with every request and every place rating: none,
\* and the reviews of test_low_data_with_high_google_rating_and_low_tabelog_diff
CommentFewReviewLists ==
    { <<>>,
      << [rating |-> 5, text |-> T_saikou, created_at |-> 28],
         [rating |-> 5, text |-> T_saikou, created_at |-> 27],
         [rating |-> 5, text |-> T_saikou, created_at |-> 26],
         [rating |-> 4, text |-> Rep(120, 4), created_at |-> 25],
         [rating |-> 1, text |-> T_sagi, created_at |-> 24] >> }

\* ratings 4.5 and 4.9 against 3.0, 4.0 and 4.25: differences of 1.5, 0.5,
\* 0.25, 1.9, 0.9 and 0.65
CommentPlaceRatings == {None, Some(Rat(9, 2)), Some(Rat(49, 10))}

CommentRequests ==
    [tabelog_rating : {None, Some(Int2R(3)), Some(Int2R(4)),
                       Some(Rat(17, 4))},
     tabelog_review_count : {None, Some(1)},
     tabelog_name : {None}]

\* the requests and place ratings tried with every review list
CommentFewRequests ==
    { <<[tabelog_rating |-> None, tabelog_review_count |-> None,
         tabelog_name |-> None], Some(Rat(9, 2))>>,
      <<[tabelog_rating |-> None, tabelog_review_count |-> Some(1),
         tabelog_name |-> None], None>>,
      <<[tabelog_rating |-> Some(Int2R(4)), tabelog_review_count |-> Some(1),
         tabelog_name |-> None], Some(Rat(9, 2))>> }

\* The scoring core called on inputs around the thresholds of the comments.
InitComments ==
    /\ pc = "analyze_place"
    /\ client = TRUE
    /\ url = None
    /\ place_id = None
    /\ raised = ""
    /\ details = None
    /\ max_reviews = 0
    /\ collected = <<>>
    /\ next_page_token = None
    /\ requests = 0
    /\ response = NoResponse
    /\ status = 0
    /\ called = {}
    /\ sakura_score = 0
    /\ fraud_score = 0
    /\ risk_label = ""
    /\ \/ \E reviews \in CommentReviewLists, rr \in CommentFewRequests :
             /\ request = rr[1]
             /\ place = Some([name |-> N_sushi, rating |-> rr[2],
                              reviews |-> reviews])
       \/ \E reviews \in CommentFewReviewLists, rating \in CommentPlaceRatings :
             /\ request \in CommentRequests
             /\ place = Some([name |-> N_sushi, rating |-> rating,
                              reviews |-> reviews])

SpecComments == InitComments /\ [][AnalyzePlace]_vars

(***************************************************************************)
(* Inputs of parse_place_id: URLs put together from a host, a path, a      *)
(* query and a fragment; the link queries carry quote(inner, safe="")      *)
(***************************************************************************)
H_google == Str("https://www.google.com")

H_short == Str("https://maps.app.goo.gl")

\* an IPv6 host that lacks its closing bracket: urlparse raises ValueError
H_bad == Str("http://[::1")

P_root == Str("/")

\* "/maps/place/" and the name of the Tokyo Metropolitan Government office
P_tokyo == Str("/maps/place/") \o <<26481, 20140, 37117, 24193>>

\* the identifier is the last element of the path
P_end == Str("/maps/place/foo/data=!3m1!1sChIJ987")

\* the identifier is followed by another element
P_mid == Str("/maps/place/foo/data=!3m1!1sChIJ555!8m2")

\* with these: a place without data, the pattern outside /maps/place/,
\* and an empty element before the identifier
UrlPaths ==
    {P_root, P_tokyo, P_end, P_mid,
     Str("/maps/place/foo"),
     Str("/maps/dir/data=!1sChIJ555!8m2"),
     Str("/maps/place/a!1s!1sCD!x")}

Q_std == Str("?q=place_id:ChIJ123&query_place_id=ChIJ123")

\* quote("https://www.google.com/maps/place/foo/data=!3m1!1sChIJ987")
L_end ==
    Str("?link=https%3A%2F%2Fwww.google.com%2Fmaps%2Fplace%2Ffoo%2Fdata%3D%213m1%211sChIJ987")

L_mid == L_end \o Str("%218m2")

UrlQueries ==
    {<<>>, Q_std, L_end, L_mid,
     \* a blank value
     Str("?place_id=&x"),
     \* fullwidth "AB", a plus sign and "1"
     Str("?placeid=%EF%BC%A1%EF%BC%A2+1"),
     \* two keys, the second one first in PLACE_ID_KEYS
     Str("?place_id=first&query_place_id=second"),
     \* a link that urlparse refuses
     Str("?link=http%3A%2F%2F%5B%3A%3A1"),
     \* a link with a place_id parameter
     Str("?link=https%3A%2F%2Fwww.google.com%2F%3Fplace_id%3DInner"),
     \* a link whose inner URL carries a link of its own
     Str("?link=https%3A%2F%2Fmaps.app.goo.gl%2F%3Flink%3Dhttps%253A%252F%252Fwww.google.com%252Fmaps%252Fplace%252Ffoo%252Fdata%253D%25213m1%25211sNested%25218m2")}

\* what the tests and the handler hand to parse_place_id
ParseInputs ==
    {None, Some(<<>>)}
        \cup { Some(h \o p \o q \o f) :
                   h \in {H_google, H_short, H_bad}, p \in UrlPaths,
                   q \in UrlQueries, f \in {<<>>, Str("#!1sFRAG!")} }

(***************************************************************************)
(* Inputs of GooglePlacesClient: what the upstream answers                 *)
(***************************************************************************)
\* the most page requests of one run the model follows
MaxRequests == 5

\* the largest max_reviews _fetch_reviews is called with directly
MaxMaxReviews == 3

V1_five == [rating |-> Some(5), originalText |-> Some(T_saikou),
            text |-> None, publishTime |-> Some(0)]

V1_one == [rating |-> Some(1), originalText |-> Some(<<>>),
           text |-> Some(T_sagi), publishTime |-> None]

V1_unrated == [rating |-> None, originalText |-> None,
               text |-> Some(T_saikou), publishTime |-> Some(3)]

PageResponses ==
    { [status_code |-> 404, reviews |-> <<>>, nextPageToken |-> None],
      [status_code |-> 500, reviews |-> <<>>, nextPageToken |-> None],
      [status_code |-> 200, reviews |-> <<V1_five, V1_unrated, V1_one>>,
       nextPageToken |-> Some("t")],
      [status_code |-> 200, reviews |-> <<V1_five>>,
       nextPageToken |-> Some("t")],
      [status_code |-> 200, reviews |-> <<V1_unrated>>,
       nextPageToken |-> Some("t")],
      [status_code |-> 200, reviews |-> <<>>, nextPageToken |-> Some("t")],
      [status_code |-> 200, reviews |-> <<V1_one>>, nextPageToken |-> None],
      [status_code |-> 200, reviews |-> <<V1_unrated>>,
       nextPageToken |-> Some("")] }

NoResult == [name |-> <<>>, rating |-> None, reviews |-> <<>>]

DetailsResponses ==
    { [status_code |-> 500, status |-> "OK", result |-> NoResult],
      [status_code |-> 200, status |-> "REQUEST_DENIED", result |-> NoResult],
      [status_code |-> 200, status |-> "OK", result |-> NoResult],
      [status_code |-> 200, status |-> "OK",
       result |-> [name |-> N_sushi, rating |-> Some(Rat(48, 10)),
                   reviews |->
                       << [rating |-> Some(4), text |-> T_fullwidth_scam,
                           time |-> Some(16)],
                          [rating |-> None, text |-> <<>>, time |-> None],
                          [rating |-> Some(4), text |-> T_fullwidth_scam,
                           time |-> Some(16)] >>]] }

\* the URLs POST /analyze is called with
AnalyzeUrls ==
    { Some(H_google \o Str("/maps/place/") \o Q_std),
      Some(H_google \o P_mid),
      Some(H_google \o P_tokyo),
      Some(H_short \o P_root \o L_end),
      Some(H_short \o P_root \o L_mid) }

NoPlace == None

(***************************************************************************)
(* parse_place_id called on its own, as the tests call it                  *)
(***************************************************************************)
ParsePlaceId ==
    /\ pc = "parse_place_id"
    /\ \E r \in {parse_place_id(url)} :
          /\ place_id' = r.value
          /\ raised' = r.raised
          /\ pc' = IF r.raised = "" THEN "returned" ELSE "raised"
    /\ UNCHANGED <<client, url, request, details, max_reviews, collected,
                   next_page_token, requests, place, response, status, called,
                   sakura_score, fraud_score, risk_label>>

InitParse ==
    /\ pc = "parse_place_id"
    /\ client = TRUE
    /\ url \in ParseInputs
    /\ request = None
    /\ place_id = None
    /\ raised = ""
    /\ details = None
    /\ max_reviews = 0
    /\ collected = <<>>
    /\ next_page_token = None
    /\ requests = 0
    /\ place = NoPlace
    /\ response = NoResponse
    /\ status = 0
    /\ called = {}
    /\ sakura_score = 0
    /\ fraud_score = 0
    /\ risk_label = ""

SpecParse == InitParse /\ [][ParsePlaceId]_vars

(***************************************************************************)
(* GooglePlacesClient._fetch_reviews, one step per request of a page       *)
(***************************************************************************)
\* up to the while loop
FetchReviewsBegin ==
    /\ pc = "_fetch_reviews"
    /\ collected' = <<>>
    /\ next_page_token' = None
    /\ pc' = IF max_reviews <= 0 THEN "fetched" ELSE "page"
    /\ UNCHANGED <<client, url, request, place_id, raised, details,
                   max_reviews, requests, place, response, status, called,
                   sakura_score, fraud_score, risk_label>>

\* one turn of the while loop: the request of a page and what is done
\* with the answer
FetchReviewsPage ==
    /\ pc = "page"
    /\ Len(collected) < max_reviews
    /\ requests < MaxRequests
    /\ requests' = requests + 1
    /\ \E resp \in PageResponses :
          \/ /\ resp.status_code = 404
             /\ pc' = "fetched"
             /\ UNCHANGED <<collected, next_page_token, raised>>
          \/ /\ resp.status_code \notin {404, 200}
             /\ raised' = "HTTPStatusError"
             /\ pc' = "fetch_failed"
             /\ UNCHANGED <<collected, next_page_token>>
          \/ /\ resp.status_code = 200
             /\ collected' = AppendPage(collected, resp.reviews, max_reviews)
             /\ next_page_token' = resp.nextPageToken
             /\ pc' = IF /\ Truthy(resp.nextPageToken)
                         /\ Len(collected') < max_reviews
                      THEN "page"
                      ELSE "fetched"
             /\ UNCHANGED raised
    /\ UNCHANGED <<client, url, request, place_id, details, max_reviews,
                   place, response, status, called, sakura_score, fraud_score,
                   risk_label>>

\* _fetch_reviews called with a max_reviews of the caller's choice
InitFetch ==
    /\ pc = "_fetch_reviews"
    /\ client = TRUE
    /\ url = None
    /\ request = None
    /\ place_id = Some(Str("ChIJ123"))
    /\ raised = ""
    /\ details = None
    /\ max_reviews \in (0 - 1)..MaxMaxReviews
    /\ collected = <<>>
    /\ next_page_token = None
    /\ requests = 0
    /\ place = NoPlace
    /\ response = NoResponse
    /\ status = 0
    /\ called = {}
    /\ sakura_score = 0
    /\ fraud_score = 0
    /\ risk_label = ""

NextFetch == FetchReviewsBegin \/ FetchReviewsPage

SpecFetch == InitFetch /\ [][NextFetch]_vars

(***************************************************************************)
(* app/api.py: POST /analyze                                               *)
(***************************************************************************)
\* the dependency get_google_client
GetGoogleClient ==
    /\ pc = "get_google_client"
    /\ IF client
       THEN pc' = "analyze" /\ UNCHANGED status
       ELSE pc' = "done" /\ status' = 500
    /\ UNCHANGED <<client, url, request, place_id, raised, details,
                   max_reviews, collected, next_page_token, requests, place,
                   response, called, sakura_score, fraud_score, risk_label>>

\* mutant: the test of the identifier forgotten
AnalyzeParse_unchecked ==
    /\ pc = "analyze"
    /\ place_id' = parse_place_id(url).value
    /\ pc' = "fetch_place"
    /\ UNCHANGED <<client, url, request, raised, details, max_reviews,
                   collected, next_page_token, requests, place, response,
                   status, called, sakura_score, fraud_score, risk_label>>

\* analyze, up to the call of fetch_place
AnalyzeParse ==
    /\ pc = "analyze"
    /\ place_id' = parse_place_id(url).value
    /\ IF IsNone(place_id')
       THEN pc' = "done" /\ status' = 400
       ELSE pc' = "fetch_place" /\ UNCHANGED status
    /\ UNCHANGED <<client, url, request, raised, details, max_reviews,
                   collected, next_page_token, requests, place, response,
                   called, sakura_score, fraud_score, risk_label>>

\* fetch_place, up to the call of _fetch_reviews: _fetch_details
FetchDetails ==
    /\ pc = "fetch_place"
    /\ called' = called \cup {"fetch_place"}
    /\ max_reviews' = DEFAULT_MAX_REVIEWS
    /\ \E resp \in DetailsResponses :
          \/ /\ resp.status_code # 200
             /\ raised' = "HTTPStatusError"
             /\ pc' = "fetch_failed"
             /\ UNCHANGED details
          \/ /\ resp.status_code = 200
             /\ resp.status # "OK"
             /\ raised' = "RuntimeError"
             /\ pc' = "fetch_failed"
             /\ UNCHANGED details
          \/ /\ resp.status_code = 200
             /\ resp.status = "OK"
             /\ details' = Some(resp.result)
             /\ pc' = "_fetch_reviews"
             /\ UNCHANGED raised
    /\ UNCHANGED <<client, url, request, place_id, collected,
                   next_page_token, requests, place, response, status,
                   sakura_score, fraud_score, risk_label>>

\* fetch_place, from the return of _fetch_reviews
FetchPlaceReturn ==
    /\ pc = "fetched"
    /\ place' = Some(PlaceData(Val(details), collected))
    /\ pc' = "analyze_place"
    /\ UNCHANGED <<client, url, request, place_id, raised, details,
                   max_reviews, collected, next_page_token, requests,
                   response, status, called, sakura_score, fraud_score,
                   risk_label>>

\* the two except clauses of analyze
UpstreamFailed ==
    /\ pc = "fetch_failed"
    /\ status' = 502
    /\ pc' = "done"
    /\ UNCHANGED <<client, url, request, place_id, raised, details,
                   max_reviews, collected, next_page_token, requests, place,
                   response, called, sakura_score, fraud_score, risk_label>>

Init ==
    /\ pc = "get_google_client"
    /\ client \in BOOLEAN
    /\ url \in AnalyzeUrls
    /\ request \in FewRequests
    /\ place_id = None
    /\ raised = ""
    /\ details = None
    /\ max_reviews = 0
    /\ collected = <<>>
    /\ next_page_token = None
    /\ requests = 0
    /\ place = NoPlace
    /\ response = NoResponse
    /\ status = 0
    /\ called = {}
    /\ sakura_score = 0
    /\ fraud_score = 0
    /\ risk_label = ""

Next ==
    \/ GetGoogleClient
    \/ AnalyzeParse
    \/ FetchDetails
    \/ FetchReviewsBegin
    \/ FetchReviewsPage
    \/ FetchPlaceReturn
    \/ AnalyzePlace
    \/ UpstreamFailed

Spec == Init /\ [][Next]_vars

(***************************************************************************)
(* _calc_risk_label applied to a pair of scores                            *)
(***************************************************************************)
\* the largest score _calc_sakura_score and _calc_fraud_score return
MaxScore == 100

CalcRiskLabel ==
    /\ pc = "_calc_risk_label"
    /\ risk_label' = _calc_risk_label(sakura_score, fraud_score)
    /\ pc' = "labelled"
    /\ UNCHANGED <<client, url, request, place_id, raised, details,
                   max_reviews, collected, next_page_token, requests, place,
                   response, status, called, sakura_score, fraud_score>>

InitLabel ==
    /\ pc = "_calc_risk_label"
    /\ client = TRUE
    /\ url = None
    /\ request = None
    /\ place_id = None
    /\ raised = ""
    /\ details = None
    /\ max_reviews = 0
    /\ collected = <<>>
    /\ next_page_token = None
    /\ requests = 0
    /\ place = NoPlace
    /\ response = NoResponse
    /\ status = 0
    /\ called = {}
    /\ sakura_score \in 0..MaxScore
    /\ fraud_score \in 0..MaxScore
    /\ risk_label = ""

SpecLabel == InitLabel /\ [][CalcRiskLabel]_vars

(***************************************************************************)
(* Properties of the scoring core (checked under SpecScoring)              *)
(***************************************************************************)
Resp == Val(response)

Place == Val(place)

Returned == response # NoResponse

\* a well-formed ratio in [0, 1]
InUnit(r) == r.d > 0 /\ 0 <= r.n /\ r.n <= r.d

\* C1: whatever the place and the request, the two scores analyze_place
\* returns are integers between 0 and 100.
C1_ScoresInRange ==
    Returned => /\ Resp.sakura_score \in 0..100
                /\ Resp.fraud_score \in 0..100

\* a response whose sakura score was cut down to 100 by the final clamp
C1_Witness ==
    /\ Returned
    /\ Resp.sakura_score = 100
    /\ Resp.signals.total_reviews >= 20

\* C3: the four ratio signals lie in [0, 1].
C3_RatiosInUnit ==
    Returned => /\ InUnit(Resp.signals.short_5_ratio)
                /\ InUnit(Resp.signals.burst_7day_ratio)
                /\ InUnit(Resp.signals.low_star_ratio)
                /\ InUnit(Resp.signals.fraud_keyword_ratio)

\* a response on reviews that match several keywords each, with a keyword
\* ratio of exactly 1 and a low-star ratio strictly between 0 and 1
C3_Witness ==
    /\ Returned
    /\ Resp.signals.total_reviews >= 5
    /\ Resp.signals.fraud_keyword_ratio.n = Resp.signals.fraud_keyword_ratio.d
    /\ Len(Resp.fraud_keywords) >= 2
    /\ Resp.signals.low_star_ratio.n > 0
    /\ Resp.signals.low_star_ratio.n < Resp.signals.low_star_ratio.d

AllTabelogAbsent ==
    /\ IsNone(request.tabelog_rating)
    /\ IsNone(request.tabelog_review_count)
    /\ IsNone(request.tabelog_name)

\* C4: no reviews and no tabelog field: zero reviews, every ratio 0, tabelog
\* missing, no fraud keyword and the label low, whatever the place's rating
\* and name.
C4_EmptyPlaceIsLow ==
    (Returned /\ Len(Place.reviews) = 0 /\ AllTabelogAbsent) =>
        /\ Resp.signals.total_reviews = 0
        /\ Resp.signals.short_5_ratio = Int2R(0)
        /\ Resp.signals.burst_7day_ratio = Int2R(0)
        /\ Resp.signals.low_star_ratio = Int2R(0)
        /\ Resp.signals.fraud_keyword_ratio = Int2R(0)
        /\ Resp.signals.tabelog_missing = TRUE
        /\ Resp.fraud_keywords = <<>>
        /\ Resp.risk_label = "low"

\* the response for an empty, rated and named place and an empty request
C4_Witness ==
    /\ Returned
    /\ Len(Place.reviews) = 0
    /\ AllTabelogAbsent
    /\ ~IsNone(Place.rating)
    /\ Len(Place.name) > 0

\* every review is rated 1 or 2 and its text holds a fraud keyword
AllLowStarWithKeyword ==
    \A i \in 1..Len(Place.reviews) :
        /\ Place.reviews[i].rating \in {1, 2}
        /\ \E k \in 1..Len(FRAUD_KEYWORDS) :
               Contains(Place.reviews[i].text, FRAUD_KEYWORDS[k])

\* C5: at least 10 reviews, each rated 1 or 2 with a fraud keyword in its
\* text: the fraud score is at least 70 and the label high, whatever the
\* request and the place's rating and name.
C5_FraudLikeIsHigh ==
    (Returned /\ Len(Place.reviews) >= 10 /\ AllLowStarWithKeyword) =>
        /\ Resp.fraud_score >= 70
        /\ Resp.risk_label = "high"

\* such a place, with reviews of both ratings, and a request with tabelog data
C5_Witness ==
    /\ Returned
    /\ Len(Place.reviews) >= 10
    /\ AllLowStarWithKeyword
    /\ Place.reviews[1].rating # Place.reviews[Len(Place.reviews)].rating
    /\ ~IsNone(request.tabelog_rating)

\* The six terms of the sakura score as the specification states them, from
\* the signals of a response.
SakuraTerms(sig) ==
    << RMin(RMul(sig.short_5_ratio, Int2R(100)), Int2R(40)),
       RMin(RMul(sig.burst_7day_ratio, Int2R(100)), Int2R(25)),
       IF /\ ~IsNone(sig.rating_diff_google_minus_tabelog)
          /\ RLt(Int2R(0), Val(sig.rating_diff_google_minus_tabelog))
       THEN RMin(RMul(Val(sig.rating_diff_google_minus_tabelog), Int2R(15)),
                 Int2R(20))
       ELSE Int2R(0),
       IF sig.tabelog_missing THEN Int2R(5) ELSE Int2R(0),
       IF ~IsNone(sig.name_similarity_google_vs_tabelog)
       THEN RMin(RMul(RSub(Int2R(1),
                           Val(sig.name_similarity_google_vs_tabelog)),
                      Int2R(20)),
                 Int2R(15))
       ELSE Int2R(0),
       IF sig.total_reviews >= 20 /\ RLt(sig.low_star_ratio, Rat(1, 10))
       THEN Int2R(10) ELSE Int2R(0) >>

SakuraSum(sig) ==
    RAdd(RAdd(RAdd(SakuraTerms(sig)[1], SakuraTerms(sig)[2]),
              RAdd(SakuraTerms(sig)[3], SakuraTerms(sig)[4])),
         RAdd(SakuraTerms(sig)[5], SakuraTerms(sig)[6]))

\* k is an integer nearest to x
Nearest(k, x) ==
    /\ 2 * (k * x.d - x.n) <= x.d
    /\ 2 * (x.n - k * x.d) <= x.d

\* every review is a 5-star one with a normalized text of at most 15
\* characters, and all were posted within one 7-day window
AllShortFiveStarInOneWindow ==
    /\ \A i \in 1..Len(Place.reviews) : Place.reviews[i].rating = 5
    /\ \A i, j \in 1..Len(Place.reviews) :
           Place.reviews[i].created_at - Place.reviews[j].created_at <= 7
    /\ \A i \in 1..Len(Place.reviews) :
           Len(_normalize_text(Place.reviews[i].text)) <= 15

\* C10: the sakura score is the sum of the six separately capped terms,
\* rounded to a nearest integer and cut down to 100; at least 20 short
\* 5-star reviews posted within one 7-day window give a score of 70 or more.
C10_SakuraIsCappedSum ==
    Returned =>
        /\ \/ /\ Resp.sakura_score < 100
              /\ Nearest(Resp.sakura_score, SakuraSum(Resp.signals))
           \/ /\ Resp.sakura_score = 100
              /\ RLe(Rat(199, 2), SakuraSum(Resp.signals))
        /\ (Len(Place.reviews) >= 20 /\ AllShortFiveStarInOneWindow) =>
               Resp.sakura_score >= 70

\* 20 or more short 5-star reviews, some of them exactly 7 days apart, with
\* a request that adds nothing: the score is 40 + 25 + 10
C10_Witness ==
    /\ Returned
    /\ Len(Place.reviews) >= 20
    /\ AllShortFiveStarInOneWindow
    /\ Place.reviews[Len(Place.reviews)].created_at
           - Place.reviews[1].created_at = 7
    /\ Resp.sakura_score = 75

(***************************************************************************)
(* Properties of _calc_burst_ratio (checked under SpecBurst)               *)
(***************************************************************************)
\* the number of reviews dated within the 7 days that end with review i,
\* both ends included
InWindowOf(reviews, i) ==
    Cardinality({j \in 1..Len(reviews) :
        /\ reviews[i].created_at - 7 <= reviews[j].created_at
        /\ reviews[j].created_at <= reviews[i].created_at})

\* the largest of these numbers over the reviews of a non-empty list
MaxInAnyWindow(reviews) ==
    CHOOSE m \in 1..Len(reviews) :
        /\ \E i \in 1..Len(reviews) : InWindowOf(reviews, i) = m
        /\ \A i \in 1..Len(reviews) : InWindowOf(reviews, i) <= m

\* C11: with fewer than 5 reviews burst_7day_ratio is 0; with 5 or more, in
\* whatever order they come, it is M / total_reviews, where M is the largest
\* number of reviews dated within the closed 7 days that end with one of the
\* reviews (two reviews exactly 7 days apart are in the same window).
C11_BurstIsMaxWindow ==
    Returned =>
        IF Len(Place.reviews) < 5
        THEN REq(Resp.signals.burst_7day_ratio, Int2R(0))
        ELSE /\ Resp.signals.burst_7day_ratio.d > 0
             /\ REq(Resp.signals.burst_7day_ratio,
                    Rat(MaxInAnyWindow(Place.reviews), Len(Place.reviews)))

\* five or more reviews that are not in the order of their dates, two of
\* them exactly 7 days apart and two of them further apart, so that the
\* fullest window holds several reviews but not all of them
C11_Witness ==
    /\ Returned
    /\ Len(Place.reviews) >= 5
    /\ \E i, j \in 1..Len(Place.reviews) :
          /\ i < j
          /\ Place.reviews[i].created_at - Place.reviews[j].created_at = 7
    /\ \E i, j \in 1..Len(Place.reviews) :
          Place.reviews[i].created_at - Place.reviews[j].created_at > 7
    /\ MaxInAnyWindow(Place.reviews) \in 2..(Len(Place.reviews) - 1)
    /\ REq(Resp.signals.burst_7day_ratio,
           Rat(MaxInAnyWindow(Place.reviews), Len(Place.reviews)))

(***************************************************************************)
(* Properties of _build_comments (checked under SpecComments)              *)
(***************************************************************************)
\* the five comments in the order of their tests
CommentOrder ==
    <<"short_5", "burst_7day", "rating_diff", "tabelog_missing",
      "fraud_keyword">>

\* the condition of a comment, on the signals of the response
ConditionHolds(kind) ==
    CASE kind = "short_5" -> RLe(Rat(4, 10), Resp.signals.short_5_ratio)
      [] kind = "burst_7day" -> RLe(Rat(4, 10), Resp.signals.burst_7day_ratio)
      [] kind = "rating_diff" ->
             /\ ~IsNone(Resp.signals.rating_diff_google_minus_tabelog)
             /\ RLe(Rat(5, 10),
                    Val(Resp.signals.rating_diff_google_minus_tabelog))
      [] kind = "tabelog_missing" -> Resp.signals.tabelog_missing
      [] kind = "fraud_keyword" ->
             RLt(Int2R(0), Resp.signals.fraud_keyword_ratio)

\* which comment each entry of comments_ja is
CommentKinds == [i \in 1..Len(Resp.comments_ja) |-> Resp.comments_ja[i][1]]

\* place.rating - tabelog_rating >= 0.5, on the inputs
RatingGap ==
    /\ ~IsNone(Place.rating)
    /\ ~IsNone(request.tabelog_rating)
    /\ RLe(RAdd(Val(request.tabelog_rating), Rat(1, 2)), Val(Place.rating))

\* C12: comments_ja holds, in the fixed order short 5-star, burst, rating
\* gap, tabelog missing, fraud keyword, exactly one comment for each
\* condition that holds on the signals and nothing else; it is empty when
\* no condition holds, and the rating-gap comment is there whenever
\* place.rating - tabelog_rating >= 0.5.
C12_CommentsFollowConditions ==
    Returned =>
        /\ CommentKinds = SelectSeq(CommentOrder, ConditionHolds)
        /\ (\A i \in 1..Len(CommentOrder) : ~ConditionHolds(CommentOrder[i]))
               => Resp.comments_ja = <<>>
        /\ RatingGap => \E i \in 1..Len(CommentKinds) :
                            CommentKinds[i] = "rating_diff"

\* four comments in order, each condition met exactly at its threshold:
\* 2 short 5-star reviews of 5, at most 2 reviews in a window, a rating gap
\* of 0.5 and a single keyword review; the tabelog comment is left out
C12_Witness ==
    /\ Returned
    /\ Resp.signals.short_5_ratio = Rat(2, 5)
    /\ Resp.signals.burst_7day_ratio = Rat(2, 5)
    /\ Resp.signals.rating_diff_google_minus_tabelog # None
    /\ REq(Val(Resp.signals.rating_diff_google_minus_tabelog), Rat(1, 2))
    /\ Resp.signals.fraud_keyword_ratio = Rat(1, 5)
    /\ ~Resp.signals.tabelog_missing
    /\ Resp.comments_ja =
           << <<"short_5", 40>>, <<"burst_7day">>, <<"rating_diff">>,
              <<"fraud_keyword">> >>

(***************************************************************************)
(* Properties of _calc_risk_label (checked under SpecLabel)                *)
(***************************************************************************)
\* C2: for every pair of scores in 0..100 the label is "high" exactly when
\* one of the scores is at least 70, "medium" exactly when neither is
\* and one of them is at least 40, "low" exactly when both are below 40,
\* and never anything else.
C2_LabelFromScores ==
    pc = "labelled" =>
        /\ risk_label \in {"high", "medium", "low"}
        /\ risk_label = "high" <=> (sakura_score >= 70 \/ fraud_score >= 70)
        /\ risk_label = "medium" <=>
               /\ sakura_score < 70 /\ fraud_score < 70
               /\ (sakura_score >= 40 \/ fraud_score >= 40)
        /\ risk_label = "low" <=> (sakura_score < 40 /\ fraud_score < 40)

\* a low first score and a second score at the threshold make "high"
C2_Witness ==
    /\ pc = "labelled"
    /\ sakura_score = 39
    /\ fraud_score = 70
    /\ risk_label = "high"

(***************************************************************************)
(* Properties of parse_place_id (checked under SpecParse)                  *)
(***************************************************************************)
ParseEnded == pc \in {"returned", "raised"}

\* every occurrence of key in s is followed by the end of the value
BlankOnly(s, key) ==
    \A i \in 1..Len(s) :
        StartsWithAt(s, i, key) =>
            \/ i + Len(key) > Len(s)
            \/ s[i + Len(key)] \in {35, 38}

NoIdParameter(s) ==
    BlankOnly(s, Str("place_id=")) /\ BlankOnly(s, Str("placeid="))

\* a parseable URL without a place-id parameter whose link parameter is
\* the quoted https://www.google.com/maps/place/foo/data=!3m1!1sChIJ987,
\* the identifier being the last element of the path
LinkEndsWithId(u) ==
    /\ ~IsNone(u)
    /\ ~StartsWithAt(Val(u), 1, H_bad)
    /\ NoIdParameter(Val(u))
    /\ Contains(Val(u), L_end)
    /\ ~Contains(Val(u), L_mid)

\* C6: for a URL without a place-id parameter whose link parameter holds
\* a quoted Google Maps URL with a path under /maps/place/ that ends with
\* "!1s<id>", parse_place_id returns <id>.
C6_LinkIdIsReturned ==
    (ParseEnded /\ LinkEndsWithId(url)) =>
        (raised = "" /\ place_id = Some(Str("ChIJ987")))

\* an input from which no identifier can be extracted: None, the empty
\* string, an unparseable URL, or a URL without a place-id parameter,
\* without a link parameter and without the pattern "!1s<id>!"
NoIdentifier(u) ==
    \/ IsNone(u)
    \/ Val(u) = <<>>
    \/ StartsWithAt(Val(u), 1, H_bad)
    \/ /\ NoIdParameter(Val(u))
       /\ ~Contains(Val(u), Str("link="))
       /\ IsNone(PLACE_ID_PATTERN(Val(u)))

\* C7: for every input from which no identifier can be extracted,
\* parse_place_id returns None and raises nothing.
C7_NoIdentifierIsNone ==
    (ParseEnded /\ NoIdentifier(url)) => (raised = "" /\ place_id = None)

(***************************************************************************)
(* Properties of _fetch_reviews (checked under SpecFetch)                  *)
(***************************************************************************)
\* C8: whatever the pages hold, _fetch_reviews requests no more pages than
\* a maximum that max_reviews determines (max_reviews pages are enough
\* when every page but the last brings a rated review) and returns at
\* most max_reviews reviews.
C8_PagesBounded ==
    /\ requests <= IMax(max_reviews, 0)
    /\ pc = "fetched" => Len(collected) <= IMax(max_reviews, 0)

(***************************************************************************)
(* Properties of POST /analyze (checked under Spec)                        *)
(***************************************************************************)
Done == pc = "done"

====
